---- MODULE Spec2Model ----
(***************************************************************************)
(* Camera composite application: ImageProcessingModel (app/model.py), the  *)
(* Interface controller (app/interface.py), the parts of MainWindow the    *)
(* controller drives (app/view.py) and the entry point (main.py).          *)
(*                                                                         *)
(* An image (np.ndarray of shape (h, w, 3)) is a record [h, w, px] where   *)
(* px is a sequence of h rows, each a sequence of w pixels <<b, g, r>>.    *)
(* Python's None for an Optional[np.ndarray] is the record None below.     *)
(***************************************************************************)
EXTENDS Integers, Sequences, FiniteSets, TLC

\* Largest height/width of the enumerated templates and source frames.
MaxDim == 2
\* Number of cv2.VideoCapture objects the controller may construct in a run.
MaxOpens == 2
\* Number of handled events the event log remembers.
HistLen == 3
\* Number of calls made on a model that is driven directly.
MaxCalls == 2

VARIABLES
    current_live_frame,        \* model.py:20  last raw frame, or None
    captured_composite_image,  \* model.py:22  last composite, or None
    cap,                       \* model.py:24  0 = None, else index into devs
    google_img,                \* model.py:27  template, or None
    timer_active,              \* interface.py:21  QTimer.isActive()
    is_live_feed,              \* interface.py:22
    display,                   \* view.py:103  what image_label shows
    status,                    \* view.py:119  status_label text
    error_box,                 \* view.py:140  dialog shown by the last handler
    devs,                      \* the cv2.VideoCapture objects constructed so far:
                               \* opened at all, open now, release() calls, has
                               \* delivered a frame
    disk,                      \* the file cv2.imwrite writes, or None
    running,                   \* main.py:32  app.exec() has not returned
    raised,                    \* exception that escaped the last call
    ever_composed,             \* history: a compose has succeeded
    hist                       \* history: the last HistLen handled events

vars == << current_live_frame, captured_composite_image, cap, google_img,
           timer_active, is_live_feed, display, status, error_box, devs,
           disk, running, raised, ever_composed, hist >>

-----------------------------------------------------------------------------
(* Images *)

None == [h |-> -1, w |-> -1, px |-> << >>]

White == <<255, 255, 255>>

\* img[y, x] with 0-based row y and column x
At(img, y, x) == img.px[y + 1][x + 1]

\* img[y, x] = p on a copy
SetAt(img, y, x, p) ==
    [img EXCEPT !.px = [img.px EXCEPT ![y + 1] = [img.px[y + 1] EXCEPT ![x + 1] = p]]]

\* Non-white colours, among them two that differ from white in one channel.
Palette == << <<255, 255, 254>>, <<0, 0, 255>>, <<254, 255, 255>>, <<40, 30, 20>> >>

Ink(y, x) == Palette[((x + 2 * y) % 4) + 1]

\* The template of shape (hh, ww) that is pure white exactly at the cells of mask.
Stencil(hh, ww, mask) ==
    [h |-> hh, w |-> ww,
     px |-> [r \in 1..hh |-> [c \in 1..ww |->
                IF <<r - 1, c - 1>> \in mask THEN White ELSE Ink(r - 1, c - 1)]]]

AllWhite(hh, ww) ==
    [h |-> hh, w |-> ww, px |-> [r \in 1..hh |-> [c \in 1..ww |-> White]]]

\* A frame whose pixel tells its own coordinate; seed is the third channel.
Frame(hh, ww, seed) ==
    [h |-> hh, w |-> ww,
     px |-> [r \in 1..hh |-> [c \in 1..ww |->
                <<10 * (r - 1) + 1, 10 * (c - 1) + 2, seed>>]]]

Cells(hh, ww) == (0..(hh - 1)) \X (0..(ww - 1))

\* Templates cv2.imread can deliver: every white mask on every shape up to
\* MaxDim, and the all-white template of twice that size.
Templates ==
    { Stencil(hh, ww, mask) : <<hh, ww, mask>> \in
        UNION { { <<a, b, m>> : m \in SUBSET Cells(a, b) } : <<a, b>> \in (1..MaxDim) \X (1..MaxDim) } }
    \cup { AllWhite(2 * MaxDim, 2 * MaxDim), AllWhite(4, 4) }

\* Frames a caller can store in current_live_frame, empty ones included.
Sources ==
    { Frame(hh, ww, 0) : <<hh, ww>> \in (0..MaxDim) \X (0..MaxDim) }
    \cup { AllWhite(1, 1) }

\* Frames cap.read() delivers with ret = True (never empty): one that the
\* target mark does not cover entirely, one smaller than the templates.
DeviceFrames == { Frame(4, 5, 0), Frame(1, 2, 255) }

\* Templates images/google.png can hold in a session run.
SessionTemplates == { Stencil(2, 3, {<<0, 0>>, <<1, 2>>, <<0, 2>>}), Stencil(1, 2, {}) }

-----------------------------------------------------------------------------
(* ImageProcessingModel.process_and_capture_composite_image *)

\* The white test looking at the first channel only.
IsPureWhiteFirstChannel(p) == p[1] = 255

\* model.py:105-107  (b, g, r) == (255, 255, 255)
IsPureWhite(p) == p[1] = 255 /\ p[2] = 255 /\ p[3] = 255

\* The tiling with row and column exchanged.
TileSampleSwapped(capture_img, y, x) ==
    At(capture_img, x % capture_img.h, y % capture_img.w)

\* model.py:109  capture_img[y % c_hight, x % c_width]
TileSample(capture_img, y, x) ==
    At(capture_img, y % capture_img.h, x % capture_img.w)

\* model.py:103-109  the loops, x outer and y inner, from cell number k on;
\* a modulo by zero raises ZeroDivisionError and the local copy is lost.
RECURSIVE ComposeLoop(_, _, _)
ComposeLoop(composite_img, capture_img, k) ==
    LET g_hight == composite_img.h
        g_width == composite_img.w
        c_hight == capture_img.h
        c_width == capture_img.w
    IN  IF k >= g_width * g_hight
        THEN [exc |-> "none", img |-> composite_img]
        ELSE LET x == k \div g_hight
                 y == k % g_hight
             IN  IF IsPureWhite(At(composite_img, y, x))
                 THEN IF c_hight = 0 \/ c_width = 0
                      THEN [exc |-> "ZeroDivisionError", img |-> None]
                      ELSE ComposeLoop(
                               SetAt(composite_img, y, x, TileSample(capture_img, y, x)),
                               capture_img, k + 1)
                 ELSE ComposeLoop(composite_img, capture_img, k + 1)

\* model.py:94
MissingInput(capture_img, template) == capture_img = None \/ template = None

\* The loops writing into the template itself instead of into a copy.
TemplateAliased(template, composite) ==
    IF composite = None THEN template ELSE composite

\* model.py:97  composite_img is a copy of google_img, so the loops leave
\* google_img as it was
TemplateAfterCompose(template, composite) == template

\* model.py:88-113  the value returned (img) or the exception raised (exc),
\* and google_img after the call (tpl)
process_and_capture_composite_image(capture_img, template) ==
    IF MissingInput(capture_img, template)
    THEN [exc |-> "ValueError", img |-> None, tpl |-> template]
    ELSE LET r == ComposeLoop(template, capture_img, 0)
         IN  [exc |-> r.exc, img |-> r.img,
              tpl |-> TemplateAfterCompose(template, r.img)]

\* save_image dropping the composite once it is written.
SaveImageDropsComposite(image, write_ok) ==
    IF image = None
    THEN [exc |-> "ValueError", wrote |-> FALSE, result |-> FALSE, kept |-> image]
    ELSE [exc |-> "none", wrote |-> TRUE, result |-> write_ok,
          kept |-> IF write_ok THEN None ELSE image]

\* model.py:119-124  save_image: what it raises, whether imwrite ran, its
\* result, and captured_composite_image after the call
save_image(image, write_ok) ==
    IF image = None
    THEN [exc |-> "ValueError", wrote |-> FALSE, result |-> FALSE, kept |-> image]
    ELSE [exc |-> "none", wrote |-> TRUE, result |-> write_ok, kept |-> image]

-----------------------------------------------------------------------------
(* Event log *)

Push(h, e) == IF Len(h) < HistLen THEN Append(h, e) ELSE Append(Tail(h), e)

LastEvent == IF hist = << >> THEN "" ELSE hist[Len(hist)]

\* The last n events, oldest first (<< >> while fewer were handled).
LastEvents(n) ==
    IF Len(hist) < n THEN << >> ELSE SubSeq(hist, Len(hist) - n + 1, Len(hist))

-----------------------------------------------------------------------------
(* ImageProcessingModel: camera *)

\* is_camera_open answering True whatever the handle.
IsCameraOpenAlways == TRUE

\* model.py:43-45
is_camera_open == cap # 0 /\ devs[cap].isOpened

\* stop_capture releasing the device but keeping self.cap.
StopCaptureKeepsHandle ==
    IF cap # 0 /\ devs[cap].isOpened
    THEN [cap  |-> cap,
          devs |-> [devs EXCEPT ![cap] = [@ EXCEPT !.isOpened = FALSE,
                                                   !.releases = @ + 1]]]
    ELSE [cap |-> cap, devs |-> devs]

\* model.py:47-51  the handle and the device objects after stop_capture()
stop_capture ==
    IF cap # 0 /\ devs[cap].isOpened
    THEN [cap  |-> 0,
          devs |-> [devs EXCEPT ![cap] = [@ EXCEPT !.isOpened = FALSE,
                                                   !.releases = @ + 1]]]
    ELSE [cap |-> cap, devs |-> devs]

Red == <<0, 0, 255>>

\* model.py:71-77  copy, then the two red lines of thickness 3 through the
\* centre, 80 pixels to each side and clipped to the frame
DrawTarget(frame) ==
    LET cx == frame.w \div 2
        cy == frame.h \div 2
        OnLine(y, x) ==
            \/ x \in (cx - 1)..(cx + 1) /\ y \in (cy - 81)..(cy + 81)
            \/ y \in (cy - 1)..(cy + 1) /\ x \in (cx - 81)..(cx + 81)
    IN  [h |-> frame.h, w |-> frame.w,
         px |-> [r \in 1..frame.h |-> [c \in 1..frame.w |->
                    IF OnLine(r - 1, c - 1) THEN Red ELSE At(frame, r - 1, c - 1)]]]

\* model.py:80  cv2.flip(img, flipCode=1)
Flip(img) ==
    [h |-> img.h, w |-> img.w,
     px |-> [r \in 1..img.h |-> [c \in 1..img.w |-> At(img, r - 1, img.w - c)]]]

\* interface.py:121, 153  cv2.cvtColor(.., COLOR_BGR2RGB)
ToRGB(img) ==
    [h |-> img.h, w |-> img.w,
     px |-> [r \in 1..img.h |-> [c \in 1..img.w |->
                << img.px[r][c][3], img.px[r][c][2], img.px[r][c][1] >>]]]

\* get_frame_for_display storing the frame before it tests ret.
GetFrameStoresBeforeRetTest(got) ==
    IF ~is_camera_open
    THEN [read |-> FALSE, stored |-> current_live_frame, out |-> None]
    ELSE IF got = None
    THEN [read |-> TRUE, stored |-> None, out |-> None]
    ELSE [read |-> TRUE, stored |-> got, out |-> Flip(DrawTarget(got))]

\* get_frame_for_display drawing the target mark on the frame itself.
GetFrameDrawsInPlace(got) ==
    IF ~is_camera_open
    THEN [read |-> FALSE, stored |-> current_live_frame, out |-> None]
    ELSE IF got = None
    THEN [read |-> TRUE, stored |-> current_live_frame, out |-> None]
    ELSE [read |-> TRUE, stored |-> DrawTarget(got), out |-> Flip(DrawTarget(got))]

\* model.py:53-82  get_frame_for_display when cap.read() would deliver `got`
\* (None: ret is False): whether read() ran, the raw frame stored, the value
\* returned
get_frame_for_display(got) ==
    IF ~is_camera_open
    THEN [read |-> FALSE, stored |-> current_live_frame, out |-> None]
    ELSE IF got = None
    THEN [read |-> TRUE, stored |-> current_live_frame, out |-> None]
    ELSE [read |-> TRUE, stored |-> got, out |-> Flip(DrawTarget(got))]

-----------------------------------------------------------------------------
(* View *)

Placeholder == [kind |-> "placeholder", img |-> None]

\* view.py:103-117
display_frame(kind, pixmap) ==
    IF pixmap = None THEN Placeholder ELSE [kind |-> kind, img |-> pixmap]

-----------------------------------------------------------------------------
(* Interface *)

\* The session state of the state machine, read off the controller's fields.
SessionState ==
    IF is_live_feed THEN "Live"
    ELSE IF ~is_camera_open THEN "NoCamera"
    ELSE IF display.kind = "composite" THEN "Composited"
    ELSE "Frozen"

\* interface.py:16-26  the state after Interface.__init__ with template `loaded`
\* (None: cv2.imread found no images/google.png)
Constructed(loaded) ==
    /\ current_live_frame = None
    /\ captured_composite_image = None
    /\ cap = 0
    /\ google_img = loaded
    /\ timer_active = FALSE
    /\ is_live_feed = FALSE
    /\ display = Placeholder
    /\ status = "Ready"
    /\ error_box = IF loaded = None THEN "image_load_error" ELSE "none"
    /\ devs = << >>
    /\ disk = None
    /\ running = TRUE
    /\ raised = "none"
    /\ ever_composed = FALSE
    /\ hist = << >>

Init == \E loaded \in SessionTemplates \cup {None} : Constructed(loaded)

\* The toggle without its template guard.
ToggleBlockedNever == FALSE

\* interface.py:65
ToggleBlocked == google_img = None

\* The toggle without its resume branch.
ToggleResumesNever == FALSE

\* interface.py:73
ToggleResumes == is_camera_open

\* The open branch without its isOpened() test.
OpenSucceededAlways(opened) == TRUE

\* interface.py:85  cap_object.isOpened()
OpenSucceeded(opened) == opened

\* _start_live_feed without timer.start().
StartLiveFeedFlagOnly == [timer |-> timer_active, live |-> TRUE]

\* interface.py:94-104  the timer and the flag after _start_live_feed (TRUE)
\* and after _stop_live_feed (FALSE)
_start_live_feed == [timer |-> TRUE, live |-> TRUE]

\* _stop_live_feed without timer.stop().
StopLiveFeedKeepsTimer == [timer |-> timer_active, live |-> FALSE]

_stop_live_feed == [timer |-> FALSE, live |-> FALSE]

\* interface.py:61-92
handle_capture_toggle ==
    /\ running
    /\ \E opened \in BOOLEAN :
        LET opens == ~ToggleBlocked /\ ~timer_active /\ ~ToggleResumes
        IN  /\ opens => Len(devs) < MaxOpens
            /\ ~opens => ~opened
            /\ raised' = "none"
            /\ UNCHANGED << current_live_frame, captured_composite_image, google_img,
                            display, disk, running, ever_composed >>
            /\ IF ToggleBlocked
               THEN /\ error_box' = "not_ready"
                    /\ hist' = Push(hist, "toggle")
                    /\ UNCHANGED << cap, devs, timer_active, is_live_feed, status >>
               ELSE IF timer_active
               THEN /\ timer_active' = _stop_live_feed.timer
                    /\ is_live_feed' = _stop_live_feed.live
                    /\ status' = "camera_stopped"
                    /\ error_box' = "none"
                    /\ hist' = Push(hist, "toggle")
                    /\ UNCHANGED << cap, devs >>
               ELSE IF ToggleResumes
               THEN /\ timer_active' = _start_live_feed.timer
                    /\ is_live_feed' = _start_live_feed.live
                    /\ status' = "live_resumed"
                    /\ error_box' = "none"
                    /\ hist' = Push(hist, "toggle")
                    /\ UNCHANGED << cap, devs >>
               ELSE IF OpenSucceeded(opened)
               THEN /\ devs' = Append(devs, [everOpened |-> opened, isOpened |-> opened,
                                             releases |-> 0, delivered |-> FALSE])
                    /\ cap' = Len(devs) + 1
                    /\ timer_active' = _start_live_feed.timer
                    /\ is_live_feed' = _start_live_feed.live
                    /\ status' = "live_started"
                    /\ error_box' = "none"
                    /\ hist' = Push(hist, IF opened THEN "open_ok" ELSE "open_fail")
               ELSE /\ devs' = Append(devs, [everOpened |-> opened, isOpened |-> opened,
                                             releases |-> 1, delivered |-> FALSE])
                    /\ error_box' = "camera_error"
                    /\ hist' = Push(hist, IF opened THEN "open_ok" ELSE "open_fail")
                    /\ UNCHANGED << cap, timer_active, is_live_feed, status >>

\* interface.py:106-129  one timeout of the QTimer
update_frame ==
    /\ running
    /\ timer_active
    /\ \E got \in DeviceFrames \cup {None} :
        LET f == get_frame_for_display(got)
        IN  /\ current_live_frame' = f.stored
            /\ raised' = "none"
            /\ error_box' = "none"
            /\ hist' = Push(hist, IF ~f.read THEN "poll_noread"
                                  ELSE IF got = None THEN "poll_fail" ELSE "poll_ok")
            /\ UNCHANGED << captured_composite_image, google_img, disk, running,
                            ever_composed >>
            /\ IF f.out = None
               THEN IF is_live_feed
                    THEN /\ timer_active' = _stop_live_feed.timer
                         /\ is_live_feed' = _stop_live_feed.live
                         /\ cap' = stop_capture.cap
                         /\ devs' = stop_capture.devs
                         /\ display' = display_frame("live", None)
                         /\ status' = "read_failed"
                    ELSE UNCHANGED << timer_active, is_live_feed, cap, devs, display,
                                      status >>
               ELSE /\ display' = display_frame("live", ToRGB(f.out))
                    /\ devs' = IF cap # 0
                               THEN [devs EXCEPT ![cap] = [@ EXCEPT !.delivered = TRUE]]
                               ELSE devs
                    /\ UNCHANGED << timer_active, is_live_feed, cap, status >>

\* The compose handler without its live-feed guard.
ComposeRefusedNever == FALSE

\* interface.py:140
ComposeRefused == ~is_live_feed

\* The feed stopped before the compose is attempted.
FreezeOnAnyOutcome(r) == TRUE

\* interface.py:150-161  the feed is stopped only after a composite came back
FreezeAfterCompose(r) == r.exc = "none"

\* interface.py:135-168
handle_capture_and_composite ==
    /\ running
    /\ UNCHANGED << current_live_frame, cap, devs, disk, running >>
    /\ hist' = Push(hist, "compose")
    /\ IF ComposeRefused
       THEN /\ status' = "error_not_live"
            /\ error_box' = "none"
            /\ raised' = "none"
            /\ UNCHANGED << captured_composite_image, google_img, timer_active,
                            is_live_feed, display, ever_composed >>
       ELSE LET r == process_and_capture_composite_image(current_live_frame, google_img)
                freeze == FreezeAfterCompose(r)
            IN  /\ google_img' = r.tpl
                /\ captured_composite_image' =
                       IF r.exc = "none" THEN r.img ELSE captured_composite_image
                /\ ever_composed' = (ever_composed \/ r.exc = "none")
                /\ display' = IF r.exc = "none"
                              THEN display_frame("composite", ToRGB(r.img))
                              ELSE display
                /\ timer_active' = IF freeze THEN _stop_live_feed.timer ELSE timer_active
                /\ is_live_feed' = IF freeze THEN _stop_live_feed.live ELSE is_live_feed
                /\ status' = IF r.exc = "none" THEN "composite_done" ELSE "compositing"
                /\ error_box' = IF r.exc = "ValueError" THEN "process_error" ELSE "none"
                /\ raised' = IF r.exc = "ZeroDivisionError" THEN r.exc ELSE "none"

\* The save handler without its no-composite guard.
SaveRefusedNever == FALSE

\* interface.py:174
SaveRefused == captured_composite_image = None

\* interface.py:170-189
handle_save_image ==
    /\ running
    /\ UNCHANGED << current_live_frame, cap, google_img, timer_active, is_live_feed,
                    display, devs, running, ever_composed >>
    /\ raised' = "none"
    /\ \E file_path \in {"", "composite_image.png"}, write_ok \in BOOLEAN :
        /\ SaveRefused => file_path = "" /\ ~write_ok
        /\ file_path = "" => ~write_ok
        /\ IF SaveRefused
           THEN /\ status' = "error_nothing_to_save"
                /\ error_box' = "none"
                /\ hist' = Push(hist, "save")
                /\ UNCHANGED << disk, captured_composite_image >>
           ELSE IF file_path = ""
           THEN /\ hist' = Push(hist, "save_dialog_cancel")
                /\ error_box' = "none"
                /\ UNCHANGED << status, disk, captured_composite_image >>
           ELSE LET s == save_image(captured_composite_image, write_ok)
                IN  /\ captured_composite_image' = s.kept
                    /\ disk' = IF s.wrote /\ s.result THEN captured_composite_image
                               ELSE disk
                    /\ status' = IF s.exc = "none" /\ s.result THEN "saved" ELSE "saving"
                    /\ error_box' = IF s.exc = "ValueError" THEN "save_error"
                                    ELSE IF s.result THEN "none"
                                    ELSE "save_write_failed"
                    /\ hist' = Push(hist, IF ~s.wrote THEN "save_dialog_path"
                                          ELSE IF s.result THEN "save_write_ok"
                                          ELSE "save_write_fail")

\* main.py:32  the window is closed, app.exec() returns and sys.exit() runs
app_exit ==
    /\ running
    /\ running' = FALSE
    /\ hist' = Push(hist, "exit")
    /\ UNCHANGED << current_live_frame, captured_composite_image, cap, google_img,
                    timer_active, is_live_feed, display, status, error_box, devs,
                    disk, raised, ever_composed >>

Next ==
    \/ handle_capture_toggle
    \/ update_frame
    \/ handle_capture_and_composite
    \/ handle_save_image
    \/ app_exit

Spec == Init /\ [][Next]_vars

-----------------------------------------------------------------------------
(* ImageProcessingModel driven directly: process_and_capture_composite_image *)
(* and save_image called on a model whose template and raw frame are any of  *)
(* Templates and Sources, or None, by at most MaxCalls calls.                *)

UnitInit ==
    \E template \in Templates \cup {None}, frame \in Sources \cup {None} :
        /\ current_live_frame = frame
        /\ captured_composite_image = None
        /\ cap = 0
        /\ google_img = template
        /\ timer_active = FALSE
        /\ is_live_feed = FALSE
        /\ display = Placeholder
        /\ status = "Ready"
        /\ error_box = "none"
        /\ devs = << >>
        /\ disk = None
        /\ running = TRUE
        /\ raised = "none"
        /\ ever_composed = FALSE
        /\ hist = << >>

\* model.py:88-113  one call; the composite returned is the object stored
call_process_and_capture ==
    LET r == process_and_capture_composite_image(current_live_frame, google_img)
    IN  /\ Len(hist) < MaxCalls
        /\ captured_composite_image' =
               IF r.exc = "none" THEN r.img ELSE captured_composite_image
        /\ raised' = r.exc
        /\ ever_composed' = (ever_composed \/ r.exc = "none")
        /\ google_img' = r.tpl
        /\ hist' = Push(hist, "compose")
        /\ UNCHANGED << current_live_frame, cap, timer_active,
                        is_live_feed, display, status, error_box, devs, disk,
                        running >>

\* model.py:119-124  one call with a path cv2.imwrite can (write_ok) or cannot
\* write
call_save_image ==
    \E write_ok \in BOOLEAN :
        LET s == save_image(captured_composite_image, write_ok)
        IN  /\ Len(hist) < MaxCalls
            /\ s.exc # "none" => ~write_ok
            /\ raised' = s.exc
            /\ captured_composite_image' = s.kept
            /\ disk' = IF s.wrote /\ s.result THEN captured_composite_image ELSE disk
            /\ hist' = Push(hist, IF ~s.wrote THEN "save"
                                  ELSE IF s.result THEN "save_write_ok"
                                  ELSE "save_write_fail")
            /\ UNCHANGED << current_live_frame, cap, google_img, timer_active,
                            is_live_feed, display, status, error_box, devs, running,
                            ever_composed >>

UnitNext ==
    \/ call_process_and_capture
    \/ call_save_image

UnitSpec == UnitInit /\ [][UnitNext]_vars

-----------------------------------------------------------------------------
(* Claims about the compositor, checked under UnitSpec *)

HasWhiteCell(img) ==
    \E c \in Cells(img.h, img.w) : At(img, c[1], c[2]) = White

\* The 2x2 source with four distinct colours, and it repeated twice each way.
Source2x2 ==
    [h |-> 2, w |-> 2,
     px |-> << << <<1, 2, 0>>,  <<1, 12, 0>>  >>,
               << <<11, 2, 0>>, <<11, 12, 0>> >> >>]

Tiled4x4 ==
    [h |-> 4, w |-> 4,
     px |-> << << <<1, 2, 0>>,  <<1, 12, 0>>,  <<1, 2, 0>>,  <<1, 12, 0>>  >>,
               << <<11, 2, 0>>, <<11, 12, 0>>, <<11, 2, 0>>, <<11, 12, 0>> >>,
               << <<1, 2, 0>>,  <<1, 12, 0>>,  <<1, 2, 0>>,  <<1, 12, 0>>  >>,
               << <<11, 2, 0>>, <<11, 12, 0>>, <<11, 2, 0>>, <<11, 12, 0>> >> >>]

\* C1: after a successful process_and_capture_composite_image, every cell
\* (row y, column x) at which the template is exactly (255,255,255) holds in
\* the composite the source pixel at row y mod S.height, column x mod S.width,
\* the source having positive height and width; the 4x4 all-white template
\* with the 2x2 four-colour source gives the source repeated twice each way.
C1_WhiteCellsHoldTiledSource ==
    (captured_composite_image # None /\ google_img # None /\ current_live_frame # None)
    => /\ \A c \in Cells(google_img.h, google_img.w) :
            At(google_img, c[1], c[2]) = White
            => /\ current_live_frame.h > 0
               /\ current_live_frame.w > 0
               /\ At(captured_composite_image, c[1], c[2])
                    = At(current_live_frame, c[1] % current_live_frame.h,
                                             c[2] % current_live_frame.w)
       /\ (google_img = AllWhite(4, 4) /\ current_live_frame = Source2x2)
            => captured_composite_image = Tiled4x4

C1_Witness ==
    /\ LastEvent = "compose"
    /\ raised = "none"
    /\ google_img = AllWhite(4, 4)
    /\ current_live_frame = Source2x2
    /\ captured_composite_image = Tiled4x4

\* C2: the composite has the template's dimensions, every cell at which the
\* template is not exactly (255,255,255) holds the template's pixel, and a
\* template with no pure-white cell yields a composite equal to the template.
C2_InkCellsKeepTemplate ==
    (captured_composite_image # None /\ google_img # None)
    => /\ captured_composite_image.h = google_img.h
       /\ captured_composite_image.w = google_img.w
       /\ Len(captured_composite_image.px) = google_img.h
       /\ \A y \in 1..google_img.h : Len(captured_composite_image.px[y]) = google_img.w
       /\ \A c \in Cells(google_img.h, google_img.w) :
            At(google_img, c[1], c[2]) # White
            => At(captured_composite_image, c[1], c[2]) = At(google_img, c[1], c[2])
       /\ ~HasWhiteCell(google_img) => captured_composite_image = google_img

C2_Witness ==
    /\ LastEvent = "compose"
    /\ raised = "none"
    /\ google_img # None
    /\ HasWhiteCell(google_img)
    /\ \E c \in Cells(google_img.h, google_img.w) :
            /\ At(google_img, c[1], c[2]) = <<255, 255, 254>>
            /\ At(captured_composite_image, c[1], c[2]) = <<255, 255, 254>>
    /\ captured_composite_image # google_img

\* C9: a compose whose stored source frame has height 0 or width 0 fails with
\* a reported error (no modulo by zero is evaluated) and stores no composite,
\* whether or not the template has a pure-white cell.
C9_EmptySourceFailsFast ==
    ( /\ LastEvent = "compose"
      /\ google_img # None
      /\ current_live_frame # None
      /\ (current_live_frame.h = 0 \/ current_live_frame.w = 0) )
    => /\ raised = "ValueError"
       /\ captured_composite_image = None

-----------------------------------------------------------------------------
(* Claims about the capture session, checked under Spec *)

\* The composite the design prescribes for template T and source S.
Tiled(T, S) ==
    [h |-> T.h, w |-> T.w,
     px |-> [r \in 1..T.h |-> [c \in 1..T.w |->
                IF At(T, r - 1, c - 1) = White
                THEN At(S, (r - 1) % S.h, (c - 1) % S.w)
                ELSE At(T, r - 1, c - 1)]]]

ToggleEvents == {"toggle", "open_ok", "open_fail"}

SaveEvents == {"save", "save_dialog_cancel", "save_dialog_path", "save_write_ok",
               "save_write_fail"}

\* C3: a compose requested while the template is absent or no raw frame is
\* stored ends with an error outcome and leaves the raw frame, the composite,
\* the device handle and the session state (polling or not) as they were.
C3_FailedComposeChangesNothing ==
    [][ (LastEvent' = "compose" /\ (google_img = None \/ current_live_frame = None))
        => /\ status' = "error_not_live" \/ error_box' = "process_error"
           /\ raised' = "none"
           /\ UNCHANGED << current_live_frame, captured_composite_image, google_img,
                           cap, devs, timer_active, is_live_feed >>
           /\ SessionState' = SessionState ]_vars

C3_Witness ==
    /\ LastEvent = "compose"
    /\ SessionState = "Live"
    /\ timer_active
    /\ google_img # None
    /\ current_live_frame = None
    /\ error_box = "process_error"

\* C4 as claimed: a compose requested in Live or in Frozen, with a raw frame
\* and a template stored, stores the composite of the two and leaves the
\* session Composited, polling stopped and the handle kept.
C4_ComposeInLiveOrFrozen ==
    [][ ( /\ LastEvent' = "compose"
          /\ SessionState \in {"Live", "Frozen"}
          /\ current_live_frame # None
          /\ google_img # None )
        => /\ captured_composite_image' = Tiled(google_img, current_live_frame)
           /\ SessionState' = "Composited"
           /\ ~timer_active'
           /\ cap' = cap /\ devs' = devs ]_vars

\* C4 as amended: a compose requested in Live, with a raw frame and a
\* template stored, stores the composite of the two and leaves the session
\* Composited, polling stopped and the handle kept; a compose requested while
\* the feed is not live is refused with an error status and changes neither
\* the composite nor the session.
C4_ComposeInLive ==
    [][ LastEvent' = "compose"
        => /\ ( /\ SessionState = "Live"
                /\ current_live_frame # None
                /\ google_img # None )
              => /\ captured_composite_image' = Tiled(google_img, current_live_frame)
                 /\ SessionState' = "Composited"
                 /\ ~timer_active'
                 /\ ~is_live_feed'
                 /\ cap' = cap /\ devs' = devs
                 /\ UNCHANGED << current_live_frame, google_img >>
           /\ SessionState # "Live"
              => /\ status' = "error_not_live"
                 /\ SessionState' = SessionState
                 /\ UNCHANGED << current_live_frame, captured_composite_image,
                                 google_img, cap, devs, timer_active, is_live_feed,
                                 display >> ]_vars

C4_Witness ==
    /\ LastEvents(2) = << "poll_ok", "compose" >>
    /\ SessionState = "Composited"
    /\ ~timer_active
    /\ is_camera_open
    /\ HasWhiteCell(google_img)
    /\ captured_composite_image = Tiled(google_img, current_live_frame)
    /\ captured_composite_image # google_img

\* What the toggle does in each session state, given it is not blocked.
ToggleActsOnSessionState ==
    /\ SessionState = "NoCamera"
       => /\ Len(devs') = Len(devs) + 1
          /\ SubSeq(devs', 1, Len(devs)) = devs
          /\ IF devs'[Len(devs')].isOpened
             THEN /\ cap' = Len(devs')
                  /\ timer_active' /\ is_live_feed'
             ELSE /\ cap' = cap
                  /\ ~timer_active' /\ ~is_live_feed'
    /\ SessionState = "Live"
       => /\ ~timer_active' /\ ~is_live_feed'
          /\ cap' = cap /\ devs' = devs
          /\ is_camera_open'
          /\ current_live_frame' = current_live_frame
    /\ SessionState \in {"Frozen", "Composited"}
       => /\ timer_active' /\ is_live_feed'
          /\ cap' = cap /\ devs' = devs

\* C5 as claimed: the toggle acts on the session state alone: with no device
\* open it opens the device and starts Live if the open succeeds, in Live it
\* freezes (handle and raw frame kept), in Frozen or Composited it resumes to
\* Live without re-opening the device.
C5_ToggleOnSessionStateAlone ==
    [][ LastEvent' \in ToggleEvents => ToggleActsOnSessionState ]_vars

\* C5 as amended: when a template is stored the toggle acts on the session
\* state as claimed; when no template is stored the toggle reports an error,
\* opens no device and changes nothing of the session.
C5_ToggleWithTemplate ==
    [][ LastEvent' \in ToggleEvents
        => /\ google_img # None => ToggleActsOnSessionState
           /\ google_img = None
              => /\ error_box' = "not_ready"
                 /\ UNCHANGED << current_live_frame, captured_composite_image,
                                 google_img, cap, devs, timer_active, is_live_feed,
                                 display, status >> ]_vars

C5_Witness ==
    /\ hist = << "open_ok", "toggle", "toggle" >>
    /\ SessionState = "Live"
    /\ timer_active
    /\ cap = 1
    /\ Len(devs) = 1
    /\ devs[1].isOpened

\* C6: a poll in Live whose read fails ends in NoCamera: polling stopped, the
\* device released, the handle cleared, is_camera_open false, the raw frame
\* as it was.
C6_ReadFailureEndsInNoCamera ==
    [][ (LastEvent' = "poll_fail" /\ SessionState = "Live")
        => /\ ~timer_active' /\ ~is_live_feed'
           /\ cap # 0
           /\ cap' = 0
           /\ devs'[cap].releases = devs[cap].releases + 1
           /\ ~devs'[cap].isOpened
           /\ ~is_camera_open'
           /\ SessionState' = "NoCamera"
           /\ current_live_frame' = current_live_frame ]_vars

C6_Witness ==
    /\ LastEvents(2) = << "poll_ok", "poll_fail" >>
    /\ SessionState = "NoCamera"
    /\ current_live_frame # None
    /\ cap = 0
    /\ \E i \in 1..Len(devs) : devs[i].everOpened /\ devs[i].releases = 1

\* C7: while the session is Frozen or Composited no frame is read and the raw
\* frame does not change; freeze and resume keep the raw frame, and open,
\* freeze, resume, freeze ends in Frozen.
C7_NoReadWhileFrozen ==
    [][ /\ SessionState \in {"Frozen", "Composited"}
           => /\ LastEvent' \notin {"poll_ok", "poll_fail", "poll_noread"}
              /\ current_live_frame' = current_live_frame
        /\ LastEvent' = "toggle"
           => /\ current_live_frame' = current_live_frame
              /\ SessionState = "Live" => SessionState' \in {"Frozen", "Composited"}
        /\ (LastEvents(3) = << "open_ok", "toggle", "toggle" >> /\ LastEvent' = "toggle")
           => SessionState' = "Frozen" ]_vars

C7_Witness ==
    /\ LastEvents(3) = << "toggle", "toggle", "toggle" >>
    /\ SessionState = "Frozen"
    /\ ~timer_active
    /\ current_live_frame # None

\* C8: while no compose has ever succeeded a save request ends with the
\* nothing-to-save status, asks for no path and writes no file; that outcome
\* is not the one a failed write gives.
C8_NothingToSave ==
    [][ /\ (LastEvent' \in SaveEvents /\ ~ever_composed)
           => /\ LastEvent' = "save"
              /\ status' = "error_nothing_to_save"
              /\ error_box' = "none"
              /\ disk' = disk
              /\ disk = None
        /\ LastEvent' = "save_write_fail"
           => /\ error_box' = "save_write_failed"
              /\ status' # "error_nothing_to_save"
              /\ disk' = disk ]_vars

C8_Witness ==
    /\ LastEvent = "save"
    /\ ~ever_composed
    /\ current_live_frame # None
    /\ status = "error_nothing_to_save"
    /\ disk = None

\* C10: every device handle that was opened is released at most once while
\* the process runs and exactly once when it has exited, whatever the session
\* state at exit.
C10_OpenedHandleReleasedOnce ==
    \A i \in 1..Len(devs) :
        devs[i].everOpened
        => /\ devs[i].releases <= 1
           /\ ~running => devs[i].releases = 1

\* C11: whenever a composite is stored, a template and a raw frame are stored
\* too, and a compose has succeeded before.
C11_CompositeNeedsTemplateAndFrame ==
    captured_composite_image # None
    => /\ google_img # None
       /\ current_live_frame # None
       /\ ever_composed

C11_Witness ==
    /\ LastEvents(2) = << "compose", "toggle" >>
    /\ captured_composite_image # None
    /\ google_img # None
    /\ current_live_frame # None
    /\ SessionState = "Live"

\* C12: an open request in NoCamera whose device does not open leaves the
\* session in NoCamera: no handle stored, polling not started, raw frame and
\* composite as they were; the next toggle attempts the open again.
C12_FailedOpenStaysInNoCamera ==
    [][ /\ (LastEvent' = "open_fail" /\ SessionState = "NoCamera")
           => /\ cap' = 0
              /\ cap' = cap
              /\ ~timer_active' /\ ~is_live_feed'
              /\ ~is_camera_open'
              /\ SessionState' = "NoCamera"
              /\ error_box' = "camera_error"
              /\ UNCHANGED << current_live_frame, captured_composite_image >>
        /\ (LastEvent = "open_fail" /\ LastEvent' \in ToggleEvents)
           => /\ LastEvent' \in {"open_ok", "open_fail"}
              /\ Len(devs') = Len(devs) + 1 ]_vars

C12_Witness ==
    /\ LastEvents(2) = << "open_fail", "open_ok" >>
    /\ Len(devs) = 2
    /\ ~devs[1].everOpened
    /\ cap = 2
    /\ SessionState = "Live"

\* C13: a save request, whether the write succeeds, the write fails or there
\* is no composite, leaves the session state, the device handle, the polling
\* status, the raw frame and the composite as they were.
C13_SaveKeepsSession ==
    [][ LastEvent' \in SaveEvents
        => /\ SessionState' = SessionState
           /\ UNCHANGED << cap, devs, timer_active, is_live_feed, current_live_frame,
                           captured_composite_image, google_img, display >> ]_vars

C13_Witness ==
    /\ LastEvents(3) = << "save", "compose", "save_write_fail" >>
    /\ SessionState = "Composited"
    /\ captured_composite_image # None
    /\ error_box = "save_write_failed"
    /\ disk = None

\* C14: every cap.read() happens while the session holds a handle that is
\* open and was never released; once the device is released no read is
\* attempted until a new open has succeeded.
C14_ReadsOnlyOnOpenHandle ==
    [][ LastEvent' \in {"poll_ok", "poll_fail"}
        => /\ cap # 0
           /\ devs[cap].everOpened
           /\ devs[cap].isOpened
           /\ devs[cap].releases = 0 ]_vars

C14_Witness ==
    /\ hist = << "poll_fail", "open_ok", "poll_ok" >>
    /\ cap = 2
    /\ devs[1].releases = 1
    /\ ~devs[1].isOpened
    /\ devs[2].isOpened
    /\ devs[2].releases = 0

\* C15: a compose requested in a Live session whose device has delivered no
\* frame since it was opened fails with the missing-input error and stores
\* nothing, also when the device was opened again after a read failure.
C15_ComposeNeedsPollOfThisSession ==
    [][ ( /\ LastEvent' = "compose"
          /\ SessionState = "Live"
          /\ cap # 0
          /\ ~devs[cap].delivered )
        => /\ error_box' = "process_error"
           /\ captured_composite_image' = captured_composite_image
           /\ SessionState' = "Live" ]_vars

\* The preview the design prescribes for frame F: red on the three columns
\* and the three rows through the centre, then mirrored left to right.
Preview(F) ==
    [h |-> F.h, w |-> F.w,
     px |-> [r \in 1..F.h |-> [c \in 1..F.w |->
                LET x == F.w - c
                    y == r - 1
                IN  IF \/ x - (F.w \div 2) \in -1..1
                       \/ y - (F.h \div 2) \in -1..1
                    THEN <<0, 0, 255>>
                    ELSE F.px[y + 1][x + 1]]]]

\* C16: after every successful poll the stored raw frame is the frame read,
\* without target mark and not mirrored, while the view shows the annotated
\* mirrored copy; a compose samples the raw frame, never the preview.
C16_RawFrameStoredPreviewShown ==
    [][ /\ LastEvent' = "poll_ok"
           => \E got \in DeviceFrames :
                /\ current_live_frame' = got
                /\ display'.kind = "live"
                /\ display'.img = ToRGB(Preview(got))
        /\ (LastEvent' = "compose" /\ captured_composite_image' # captured_composite_image)
           => /\ current_live_frame \in DeviceFrames
              /\ captured_composite_image' = Tiled(google_img, current_live_frame) ]_vars

C16_Witness ==
    /\ LastEvents(2) = << "poll_ok", "compose" >>
    /\ current_live_frame = Frame(4, 5, 0)
    /\ Preview(current_live_frame) # current_live_frame
    /\ Preview(current_live_frame).px[1][1] = <<1, 42, 0>>
    /\ Preview(current_live_frame).px[1][2] = <<0, 0, 255>>
    /\ HasWhiteCell(google_img)
    /\ captured_composite_image = Tiled(google_img, current_live_frame)
    /\ captured_composite_image # Tiled(google_img, Preview(current_live_frame))

\* C17: no operation changes the stored template, and the stored composite
\* changes only on a successful compose, which replaces it by the tiling of
\* the template with the stored frame.
C17_TemplateFixedCompositeOnlyReplaced ==
    [][ /\ google_img' = google_img
        /\ captured_composite_image' # captured_composite_image
           => /\ LastEvent' = "compose"
              /\ status' = "composite_done"
              /\ google_img # None
              /\ current_live_frame # None
              /\ captured_composite_image' = Tiled(google_img, current_live_frame) ]_vars

C17_Witness ==
    /\ LastEvents(3) = << "compose", "save_write_ok", "toggle" >>
    /\ HasWhiteCell(google_img)
    /\ google_img \in SessionTemplates
    /\ captured_composite_image # None
    /\ captured_composite_image # google_img
    /\ disk = captured_composite_image

\* The handler steps that call _start_live_feed, and those that call
\* _stop_live_feed.
StartsLiveFeed ==
    \/ LastEvent' = "toggle" /\ ~ToggleBlocked /\ ~timer_active /\ ToggleResumes
    \/ LastEvent' = "open_ok"

StopsLiveFeed ==
    \/ LastEvent' = "toggle" /\ ~ToggleBlocked /\ timer_active
    \/ LastEvent' \in {"poll_fail", "poll_noread"} /\ is_live_feed
    \/ LastEvent' = "compose" /\ status' = "composite_done"

\* C18: between two handled events is_live_feed holds exactly when the timer
\* is active; the flag and the timer change only in a step that calls
\* _start_live_feed (both become true) or _stop_live_feed (both become false).
C18_LiveFlagIsTimerActive ==
    /\ [](is_live_feed = timer_active)
    /\ [][ /\ StartsLiveFeed => (is_live_feed' /\ timer_active')
           /\ StopsLiveFeed => (~is_live_feed' /\ ~timer_active')
           /\ (is_live_feed' # is_live_feed \/ timer_active' # timer_active)
              => /\ StartsLiveFeed \/ StopsLiveFeed
                 /\ is_live_feed' # is_live_feed
                 /\ timer_active' # timer_active ]_vars

C18_Witness ==
    /\ hist = << "toggle", "compose", "toggle" >>
    /\ is_live_feed
    /\ timer_active
    /\ ever_composed
    /\ status = "live_resumed"

\* C19: between two handled events, an active polling timer implies that the
\* model holds a device handle and that a template is stored.
C19_PollingHasHandleAndTemplate ==
    timer_active => (cap # 0 /\ google_img # None)

C19_Witness ==
    /\ LastEvents(2) = << "poll_fail", "open_ok" >>
    /\ timer_active
    /\ cap = 2
    /\ devs[1].releases = 1
    /\ google_img # None

====
